---- MODULE Spec2Model ----
(***************************************************************************)
(* A model of SilentURLCleaner (src/untrackingParameters.py): the URL      *)
(* validator, the platform classifier, the tracking-parameter filter, the  *)
(* twitter -> fxtwitter rewriter and the clipboard watcher that drives     *)
(* them.                                                                   *)
(*                                                                         *)
(* A Python str is modelled as a sequence of one-character strings, so     *)
(* that the regular expressions of is_url and the parsing, decoding and    *)
(* encoding done by urllib.parse are computed character by character.      *)
(* The characters are the printable ASCII characters (codes 32..126).      *)
(***************************************************************************)
EXTENDS Integers, Sequences, FiniteSets, TLC

----------------------------------------------------------------------------
(* Characters and str methods                                              *)

\* a str, as the sequence of its characters
str(s) == [i \in 1..Len(s) |-> SubSeq(s, i, i)]

Range(s) == {s[i] : i \in DOMAIN s}

\* chr(32) .. chr(126), so that ord(c) = 31 + the position of c. The grave
\* accent, chr(96), cannot be written in a string of this language and is
\* named instead; no input holds it.
PRINTABLE ==
    str(" !") \o str("\"") \o str("#$%&'()*+,-./0123456789:;<=>?@ABCDEFGHIJKLMNOPQRSTUVWXYZ[")
    \o <<"\\">> \o str("]^_") \o <<"grave">> \o str("abcdefghijklmnopqrstuvwxyz{|}~")

ascii_lowercase == str("abcdefghijklmnopqrstuvwxyz")
ascii_uppercase == str("ABCDEFGHIJKLMNOPQRSTUVWXYZ")
digits == str("0123456789")
hexdigits == str("0123456789ABCDEF")

Letters == Range(ascii_lowercase) \cup Range(ascii_uppercase)
AlNum == Letters \cup Range(digits)

IndexIn == [c \in Range(PRINTABLE) |-> CHOOSE i \in DOMAIN PRINTABLE : PRINTABLE[i] = c]

ord(c) == IndexIn[c] + 31

chr(n) == PRINTABLE[n - 31]

Min(S) == CHOOSE i \in S : \A j \in S : i <= j

\* the least position of a set of positions, 0 when there is none
First(S) == IF S = {} THEN 0 ELSE Min(S)

Take(s, n) == SubSeq(s, 1, n)

Drop(s, n) == SubSeq(s, n + 1, Len(s))

Reverse(s) == [i \in 1..Len(s) |-> s[Len(s) + 1 - i]]

\* str.lower() of one character
lowerChar(c) == IF c \in Range(ascii_uppercase) THEN chr(ord(c) + 32) ELSE c

\* str.lower()
lower(s) == [i \in 1..Len(s) |-> lowerChar(s[i])]

\* s.find(c) for a single character c, counted from 1; 0 when c is absent
find(s, c) == First({i \in 1..Len(s) : s[i] = c})

\* s.find(c, start) for a single character c, positions counted from 1
find_from(s, c, start) == First({i \in start..Len(s) : s[i] = c})

\* s.rfind(c), counted from 1; 0 when c is absent
from_end(s, j) == IF j = 0 THEN 0 ELSE Len(s) + 1 - j

rfind(s, c) == from_end(s, First({j \in 1..Len(s) : s[Len(s) + 1 - j] = c}))

\* s.find(sub) for a non-empty string sub, counted from 1; 0 when absent
findsub(s, sub) ==
    First({i \in 1..(Len(s) - Len(sub) + 1) : SubSeq(s, i, i + Len(sub) - 1) = sub})

\* sub in s
contains(s, sub) == findsub(s, sub) # 0

\* s.lstrip() (of the whitespace the model has: the space)
lstrip(s) ==
    IF \A i \in 1..Len(s) : s[i] = " " THEN <<>>
    ELSE Drop(s, Min({i \in 1..Len(s) : s[i] # " "}) - 1)

\* s.strip()
strip(s) == Reverse(lstrip(Reverse(lstrip(s))))

\* s.replace(old, new): every occurrence, left to right, not overlapping
RECURSIVE replace_at(_, _, _, _)
replace_at(s, old, new, i) ==
    IF i = 0 THEN s
    ELSE Take(s, i - 1) \o new
         \o replace_at(Drop(s, i - 1 + Len(old)), old, new,
                       findsub(Drop(s, i - 1 + Len(old)), old))

replace(s, old, new) == replace_at(s, old, new, findsub(s, old))

\* s.split(sep) for a single character sep
RECURSIVE split_at(_, _, _)
split_at(s, sep, i) ==
    IF i = 0 THEN <<s>>
    ELSE <<Take(s, i - 1)>> \o split_at(Drop(s, i), sep, find(Drop(s, i), sep))

split(s, sep) == split_at(s, sep, find(s, sep))

\* s.split(sep, 1), with an empty second part when sep is absent
partition_at(s, i) == IF i = 0 THEN <<s, <<>>>> ELSE <<Take(s, i - 1), Drop(s, i)>>

partition(s, sep) == partition_at(s, find(s, sep))

\* sep.join(parts)
RECURSIVE join(_, _)
join(parts, sep) ==
    IF parts = <<>> THEN <<>>
    ELSE IF Len(parts) = 1 THEN parts[1]
    ELSE parts[1] \o sep \o join(Tail(parts), sep)

\* re.match(prefix, s, re.IGNORECASE) for a literal lower-case prefix
startswith_nocase(s, prefix) ==
    Len(s) >= Len(prefix) /\ lower(Take(s, Len(prefix))) = prefix

----------------------------------------------------------------------------
(* urllib.parse, as the cleaner calls it                                   *)

\* scheme_chars of urllib.parse
scheme_chars == AlNum \cup {"+", "-", "."}

\* uses_params of urllib.parse
uses_params ==
    {<<>>, str("ftp"), str("hdl"), str("prospero"), str("http"), str("imap"), str("https"), str("shttp"),
     str("rtsp"), str("rtspu"), str("sip"), str("sips"), str("mms"), str("sftp"), str("tel")}

\* uses_netloc of urllib.parse
uses_netloc ==
    {<<>>, str("ftp"), str("http"), str("gopher"), str("nntp"), str("telnet"), str("imap"), str("wais"),
     str("file"), str("mms"), str("https"), str("shttp"), str("snews"), str("prospero"), str("rtsp"),
     str("rtspu"), str("rsync"), str("svn"), str("svn+ssh"), str("sftp"), str("nfs"), str("git"),
     str("git+ssh"), str("ws"), str("wss")}

\* The bracketed hosts that ipaddress accepts as IPv6 literals, among those
\* the inputs hold.
IPv6Literals == {str("::1")}

\* netloc.partition('[')[2].partition(']')[0]
bracketed_host(netloc) == partition(partition(netloc, "[")[2], "]")[1]

\* urlsplit's check of the brackets of a netloc: TRUE when it raises ValueError
InvalidBrackets(netloc) ==
    IF "[" \notin Range(netloc) /\ "]" \notin Range(netloc) THEN FALSE
    ELSE IF "[" \notin Range(netloc) \/ "]" \notin Range(netloc) THEN TRUE
    ELSE bracketed_host(netloc) \notin IPv6Literals

\* urlsplit: the scheme, when the text before the first ':' is one
split_scheme_at(s, colon) ==
    IF /\ colon > 1
       /\ s[1] \in Letters
       /\ \A j \in 1..(colon - 1) : s[j] \in scheme_chars
    THEN [scheme |-> lower(Take(s, colon - 1)), rest |-> Drop(s, colon)]
    ELSE [scheme |-> <<>>, rest |-> s]

split_scheme(s) == split_scheme_at(s, find(s, ":"))

\* _splitnetloc(url, 2): the netloc ends before the first of / ? #
split_netloc_at(url, delim) ==
    IF delim = 0 THEN [netloc |-> Drop(url, 2), rest |-> <<>>]
    ELSE [netloc |-> SubSeq(url, 3, delim - 1), rest |-> Drop(url, delim - 1)]

\* urlsplit: if url[:2] == '//'
split_netloc(url) ==
    IF Len(url) >= 2 /\ url[1] = "/" /\ url[2] = "/"
    THEN split_netloc_at(url, First({i \in 3..Len(url) : url[i] \in {"/", "?", "#"}}))
    ELSE [netloc |-> <<>>, rest |-> url]

\* _splitparams(path), for a path that holds a ';'
splitparams_at(path, i) ==
    IF i = 0 THEN [path |-> path, params |-> <<>>]
    ELSE [path |-> Take(path, i - 1), params |-> Drop(path, i)]

splitparams(path) ==
    IF "/" \in Range(path)
    THEN splitparams_at(path, find_from(path, ";", rfind(path, "/")))
    ELSE splitparams_at(path, find(path, ";"))

\* urlparse: the six components, from the parts urlsplit found
parse_result(scheme, netloc, sp, query, fragment) ==
    [error |-> InvalidBrackets(netloc), scheme |-> scheme, netloc |-> netloc,
     path |-> sp.path, params |-> sp.params, query |-> query, fragment |-> fragment]

\* urlparse: if scheme in uses_params and ';' in url
parse_params(scheme, netloc, pq, fragment) ==
    parse_result(scheme, netloc,
                 IF scheme \in uses_params /\ ";" \in Range(pq[1])
                 THEN splitparams(pq[1])
                 ELSE [path |-> pq[1], params |-> <<>>],
                 pq[2], fragment)

\* urlsplit: if '?' in url
parse_query(scheme, netloc, pf) ==
    parse_params(scheme, netloc, partition(pf[1], "?"), pf[2])

\* urlsplit: if '#' in url
parse_fragment(scheme, net) ==
    parse_query(scheme, net.netloc, partition(net.rest, "#"))

parse_netloc(sch) == parse_fragment(sch.scheme, split_netloc(sch.rest))

\* urlparse(url): error is TRUE when urlsplit raises ValueError
urlparse(url) == parse_netloc(split_scheme(lstrip(url)))

\* urlunsplit: the '//' and the netloc
with_netloc(scheme, netloc, url) ==
    IF netloc # <<>> \/ (scheme # <<>> /\ scheme \in uses_netloc /\ Take(url, 2) # str("//"))
    THEN str("//") \o netloc \o (IF url # <<>> /\ url[1] # "/" THEN str("/") ELSE <<>>) \o url
    ELSE url

\* urlunsplit: the scheme, the query and the fragment
with_rest(scheme, url, query, fragment) ==
    (IF scheme # <<>> THEN scheme \o str(":") ELSE <<>>) \o url
    \o (IF query # <<>> THEN str("?") \o query ELSE <<>>)
    \o (IF fragment # <<>> THEN str("#") \o fragment ELSE <<>>)

\* urlunsplit((scheme, netloc, url, query, fragment))
urlunsplit(scheme, netloc, url, query, fragment) ==
    with_rest(scheme, with_netloc(scheme, netloc, url), query, fragment)

\* urlunparse((scheme, netloc, path, params, query, fragment))
urlunparse(scheme, netloc, path, params, query, fragment) ==
    urlunsplit(scheme, netloc,
               IF params # <<>> THEN path \o str(";") \o params ELSE path,
               query, fragment)

hexdigits_lower == lower(hexdigits)

\* int(c, 16) of a hexadecimal digit, -1 of any other character
hexvalue(c) == find(hexdigits_lower, lowerChar(c)) - 1

\* the byte the two characters after a '%' at i write, -1 when they write none
escape_code(s, i) ==
    IF i + 2 > Len(s) \/ hexvalue(s[i + 1]) < 0 \/ hexvalue(s[i + 2]) < 0 THEN -1
    ELSE 16 * hexvalue(s[i + 1]) + hexvalue(s[i + 2])

\* A %xx escape that unquote decodes starts at i. Escapes of bytes outside
\* the printable ASCII range stay as they are written.
IsEscape(s, i) == i >= 1 /\ s[i] = "%" /\ escape_code(s, i) \in 32..126

\* unquote(s)
unquote(s) ==
    SelectSeq([i \in 1..Len(s) |->
                 IF IsEscape(s, i) THEN chr(escape_code(s, i))
                 ELSE IF IsEscape(s, i - 1) \/ IsEscape(s, i - 2) THEN ""
                 ELSE s[i]],
              LAMBDA c : c # "")

\* _ALWAYS_SAFE of urllib.parse
ALWAYS_SAFE == AlNum \cup {"_", ".", "-", "~"}

\* what quote_plus writes for one character: a safe character stays, a
\* space becomes +, any other character becomes %XX
quoted(c) ==
    IF c \in ALWAYS_SAFE THEN <<c, "", "">>
    ELSE IF c = " " THEN <<"+", "", "">>
    ELSE <<"%", hexdigits[(ord(c) \div 16) + 1], hexdigits[(ord(c) % 16) + 1]>>

\* quote_plus(s, safe='')
quote_plus(s) ==
    SelectSeq([j \in 1..(3 * Len(s)) |-> quoted(s[(j + 2) \div 3])[((j - 1) % 3) + 1]],
              LAMBDA c : c # "")

\* name_value.replace('+', ' ') followed by unquote
unquote_plus(s) == unquote([i \in 1..Len(s) |-> IF s[i] = "+" THEN " " ELSE s[i]])

\* parse_qsl: the (name, value) pair of one field; a field with no '=' or
\* with an empty value is skipped (keep_blank_values is False)
parse_field(name_value, eq) ==
    IF eq = 0 \/ eq = Len(name_value) THEN <<>>
    ELSE << <<unquote_plus(Take(name_value, eq - 1)), unquote_plus(Drop(name_value, eq))>> >>

RECURSIVE parse_fields(_)
parse_fields(fields) ==
    IF fields = <<>> THEN <<>>
    ELSE parse_field(Head(fields), find(Head(fields), "=")) \o parse_fields(Tail(fields))

\* parse_qsl(qs)
parse_qsl(qs) == IF qs = <<>> THEN <<>> ELSE parse_fields(split(qs, "&"))

\* parse_qs: parsed_result[name].append(value), or parsed_result[name] = [value]
add_value(result, name, value) ==
    IF \A i \in 1..Len(result) : result[i].key # name
    THEN Append(result, [key |-> name, values |-> <<value>>])
    ELSE [i \in 1..Len(result) |->
            IF result[i].key = name
            THEN [key |-> name, values |-> Append(result[i].values, value)]
            ELSE result[i]]

\* parse_qs(qs): a dict from name to the list of its values, in the order in
\* which each name first appears; the dict is the sequence of its items
RECURSIVE collect(_, _)
collect(pairs, result) ==
    IF pairs = <<>> THEN result
    ELSE collect(Tail(pairs), add_value(result, Head(pairs)[1], Head(pairs)[2]))

parse_qs(qs) == collect(parse_qsl(qs), <<>>)

\* the 'k=v' fields urlencode(query, doseq=True) makes of one dict item
RECURSIVE item_fields(_, _)
item_fields(key, values) ==
    IF values = <<>> THEN <<>>
    ELSE <<quote_plus(key) \o str("=") \o quote_plus(Head(values))>>
         \o item_fields(key, Tail(values))

RECURSIVE all_fields(_)
all_fields(items) ==
    IF items = <<>> THEN <<>>
    ELSE item_fields(Head(items).key, Head(items).values) \o all_fields(Tail(items))

\* urlencode(query, doseq=True)
urlencode(items) == join(all_fields(items), str("&"))

----------------------------------------------------------------------------
(* SilentURLCleaner: configuration                                         *)

\* self.tracking_params
tracking_params ==
    {str("fbclid"), str("fb_action_ids"), str("fb_action_types"), str("fb_ref"), str("fb_source"),
     str("fb_comment_id"), str("comment_tracking"), str("notif_id"), str("notif_t"),
     str("utm_source"), str("utm_medium"), str("utm_campaign"), str("utm_term"), str("utm_content"),
     str("utm_id"), str("utm_source_platform"), str("utm_creative_format"), str("utm_marketing_tactic"),
     str("gclid"), str("gclsrc"), str("dclid"), str("gbraid"), str("wbraid"), str("_ga"), str("_gl"),
     str("t"), str("s"), str("ref_src"), str("ref_url"), str("twclid"), str("twitter-impression-id"),
     str("feature"), str("kw"), str("si"), str("app"), str("persist_app"), str("noapp"), str("has_verified"),
     str("list"), str("index"), str("pp"), str("source_ve_path"), str("ab_channel"),
     str("tag"), str("ref"), str("ref_"), str("pf_rd_m"), str("pf_rd_s"), str("pf_rd_r"), str("pf_rd_t"),
     str("pf_rd_p"), str("pf_rd_i"), str("pd_rd_i"), str("pd_rd_r"), str("pd_rd_w"), str("pd_rd_wg"),
     str("linkCode"), str("camp"), str("creative"), str("creativeASIN"), str("ascsubtag"),
     str("msclkid"), str("cvid"), str("trk"), str("trkInfo"), str("li_fat_id"), str("lipi"),
     str("utm_name"), str("rdt_cid"), str("share_id"), str("context"),
     str("is_copy_url"), str("sender_device"), str("sender_web_id"), str("tt_from"),
     str("igshid"), str("igsh"), str("img_index"), str("amp_analytics"),
     str("mc_cid"), str("mc_eid"), str("yclid"), str("ncid"), str("_hsenc"), str("_hsmi")}

\* self.supported_domains
supported_domains ==
    {str("facebook.com"), str("fb.com"), str("m.facebook.com"),
     str("twitter.com"), str("x.com"), str("mobile.twitter.com"),
     str("youtube.com"), str("youtu.be"), str("m.youtube.com"),
     str("instagram.com"), str("m.instagram.com"),
     str("linkedin.com"), str("m.linkedin.com"),
     str("reddit.com"), str("old.reddit.com"),
     str("tiktok.com"), str("vm.tiktok.com"),
     str("amazon.com"), str("smile.amazon.com"),
     str("pinterest.com"), str("pin.it")}

\* the domains convert_twitter_to_fxtwitter rewrites
twitter_domains == {str("twitter.com"), str("x.com"), str("mobile.twitter.com")}

\* the longest and the shortest text is_url accepts
MAX_URL_LEN == 2048

MIN_URL_LEN == 10

----------------------------------------------------------------------------
(* SilentURLCleaner: the pure methods                                      *)

\* re.match(r'^(javascript|data|vbscript|file):', text, re.IGNORECASE)
MatchDangerousScheme(text) ==
    \E name \in {str("javascript"), str("data"), str("vbscript"), str("file")} :
        startswith_nocase(text, name \o str(":"))

\* after '://': some k >= 2 characters match the three host classes and at
\* least one character follows them ('/?' may match nothing, and '.+' then
\* takes the rest)
MatchHostAndMore(r) ==
    \E k \in 2..(Len(r) - 1) :
        /\ r[k] \in AlNum
        /\ r[1] \in AlNum
        /\ \A j \in 2..(k - 1) : r[j] \in AlNum \cup {"-", "."}

\* re.match(r'^https?://[a-zA-Z0-9][a-zA-Z0-9\-\.]*[a-zA-Z0-9]/?.+$', text,
\* re.IGNORECASE)
MatchHttpUrl(text) ==
    \E prefix \in {str("http://"), str("https://")} :
        startswith_nocase(text, prefix) /\ MatchHostAndMore(Drop(text, Len(prefix)))

\* is_url as it would be with the URL pattern searched for anywhere in the
\* text and no check of the scheme the text begins with
MatchUrl_searched(stripped) ==
    \E i \in 0..Len(stripped) : MatchHttpUrl(Drop(stripped, i))

\* is_url: the two patterns, on the stripped text
MatchUrl(stripped) ==
    IF MatchDangerousScheme(stripped) THEN FALSE ELSE MatchHttpUrl(stripped)

\* is_url(text)
is_url(text) ==
    IF Len(text) > MAX_URL_LEN \/ Len(text) < MIN_URL_LEN THEN FALSE
    ELSE MatchUrl(strip(text))

\* urlparse(url).netloc.lower().replace('www.', '')
domain_of(netloc) == replace(lower(netloc), str("www."), <<>>)

\* is_supported_platform: any(platform in domain for platform in ...)
supported(parsed) ==
    IF parsed.error THEN FALSE
    ELSE \E platform \in supported_domains : contains(domain_of(parsed.netloc), platform)

\* is_supported_platform(url)
is_supported_platform(url) == supported(urlparse(url))

\* the names of dict items, in their order
keys(items) == [i \in 1..Len(items) |-> items[i].key]

\* clean_url: the parameters are filtered and the URL is rebuilt
filter_params(parsed, query_params) ==
    [url |-> urlunparse(parsed.scheme, parsed.netloc, parsed.path, parsed.params,
                        urlencode(SelectSeq(query_params,
                                            LAMBDA item : lower(item.key) \notin tracking_params)),
                        parsed.fragment),
     removed |-> keys(SelectSeq(query_params,
                                LAMBDA item : lower(item.key) \in tracking_params)),
     error |-> FALSE]

\* clean_url: the parsed URL is cleaned
clean_parsed(url, parsed) ==
    IF parsed.error THEN [url |-> url, removed |-> <<>>, error |-> TRUE]
    ELSE IF parsed.scheme \notin {str("http"), str("https")}
    THEN [url |-> url, removed |-> <<>>, error |-> FALSE]
    ELSE filter_params(parsed, parse_qs(parsed.query))

\* clean_url(url): the cleaned URL, the removed names, and whether the
\* except branch ran
clean_url(url) == clean_parsed(url, urlparse(url))

\* convert_twitter_to_fxtwitter as it would be with the domain tested the
\* way is_supported_platform tests it, by containment
convert_parsed_contained(url, parsed) ==
    IF parsed.error THEN [url |-> url, converted |-> FALSE, error |-> TRUE]
    ELSE IF /\ \E domain \in twitter_domains : contains(domain_of(parsed.netloc), domain)
            /\ contains(parsed.path, str("/status/"))
    THEN [url |-> urlunparse(parsed.scheme, str("fxtwitter.com"), parsed.path,
                             parsed.params, parsed.query, parsed.fragment),
          converted |-> TRUE, error |-> FALSE]
    ELSE [url |-> url, converted |-> FALSE, error |-> FALSE]

\* convert_twitter_to_fxtwitter: the parsed URL is converted
convert_parsed(url, parsed) ==
    IF parsed.error THEN [url |-> url, converted |-> FALSE, error |-> TRUE]
    ELSE IF /\ domain_of(parsed.netloc) \in twitter_domains
            /\ contains(parsed.path, str("/status/"))
    THEN [url |-> urlunparse(parsed.scheme, str("fxtwitter.com"), parsed.path,
                             parsed.params, parsed.query, parsed.fragment),
          converted |-> TRUE, error |-> FALSE]
    ELSE [url |-> url, converted |-> FALSE, error |-> FALSE]

\* convert_twitter_to_fxtwitter(url): the final URL, whether it was
\* converted, and whether the except branch ran
convert_twitter_to_fxtwitter(url) == convert_parsed(url, urlparse(url))

\* process_clipboard's early return: nothing to do for this clipboard content
\* (pyperclip.paste returns a str, so isinstance(current, str) holds)
MAX_CLIPBOARD_LEN == 2048

skip_clipboard(current, last) ==
    current = <<>> \/ current = last \/ Len(current) > MAX_CLIPBOARD_LEN

\* the condition as it would be without the test of removed
should_update_on_difference(current, cleaned, removed, was_converted) ==
    cleaned # current \/ was_converted

\* process_clipboard's condition for writing the final URL to the clipboard
should_update(current, cleaned, removed, was_converted) ==
    (removed # <<>> /\ cleaned # current) \/ was_converted

----------------------------------------------------------------------------
(* The texts the clipboard is given                                        *)

\* the number of query fields of a generated URL
MaxParams == 2

\* the length of the run of commas in the value of the long URL
PadLen == 700

\* the number of clipboard contents the user supplies in one run
MaxCopies == 2

\* the number of clipboard exceptions in one run
MaxErrors == 1

Schemes == {str("https://"), str("HTTP://")}

Hosts ==
    {str("youtube.com"), str("youtu.be"), str("www.x.com"), str("x.www.com"), str("twitter.com"),
     str("amazon.com"), str("example.com")}

Paths == {<<>>, str("/watch"), str("/u/status/1")}

Fields ==
    {str("t=42"), str("utm_source=foo"), str("UTM_Source=a"), str("si=xyz"), str("linkCode=abc"),
     str("TRKINFO=1"), str("v="), str("a=1"), str("b=2"), str("a=3"), str("q=a/b")}

FieldLists == UNION {[1..n -> Fields] : n \in 0..MaxParams}

Url(scheme, host, path, fields) ==
    scheme \o host \o path \o (IF fields = <<>> THEN <<>> ELSE str("?") \o join(fields, str("&")))

LongUrl == str("https://x.com/a?utm_source=1&b=") \o [i \in 1..PadLen |-> ","]

\* the texts the user copies while the watcher runs: the scenarios of the
\* documentation, texts that are no URL, URLs with nothing to clean, and
\* URLs the watcher itself writes
Copied ==
    {<<>>,
     str("short"),
     str("javascript:alert(1)"),
     str("data:text/html,https://x.com/a/status/1?utm_source=foo"),
     str("JavaScript:https://youtube.com/watch?t=42"),
     str("FILE://x.com/u/status/1?t=1"),
     str("https://example.com/page?foo=bar"),
     str("https://x.com/user/status/123?t=abc&s=20&utm_source=t.co"),
     str("https://youtu.be/dQw4w9WgXcQ?t=30&si=xyz"),
     str("https://youtube.com/watch?v=abc"),
     str("https://youtube.com/watch?v=&x=1"),
     str("https://twitter.com/u/status/1"),
     str("https://fxtwitter.com/u/status/1"),
     str("HTTPS://WWW.X.COM/home;v=1?u%74m_source=a&q=a+b%2Fc#frag"),
     str(" https://x.com/home?t=1 "),
     str("https://x.com[/home?t=1"),
     LongUrl}

\* further inputs of the pipeline, with the parts the generated URLs lack
Particular ==
    {str("VBScript:msgbox(1)//x.com/?t=1"),
     str("https://youtube.com/watch?v=abc&t=42&utm_source=foo"),
     str("https://youtube.com/watch?a=1&b=2&a=3"),
     str("https://m.youtube.com/watch?v=abc&t=42"),
     str("https://amazon.com/dp/X?linkCode=abc&tag=me&creativeASIN=B0"),
     str("https://mobile.twitter.com/u/status/1?s=20#top"),
     str("https://x.www.com/u/status/1"),
     str("https://x.com:443/u/status/1?t=1"),
     str("https://x.com[::1]/u/status/1?t=1"),
     str("https://youtube.com"),
     str("https://youtube.com/"),
     str("https://x.com-/?t=1"),
     str("http://pin.it/?t=1")}

\* the inputs of the pipeline
Inputs ==
    Copied \cup Particular
    \cup {Url(s, h, p, f) : s \in Schemes, h \in Hosts, p \in Paths, f \in FieldLists}

----------------------------------------------------------------------------
(* State                                                                   *)

VARIABLES
    \* the system clipboard, and the watcher's fields
    clipboard, last_clipboard, cleaned_count, error_count, is_running,
    \* observations of the watcher, since the user last set the clipboard:
    \* the contents the user has supplied, the polls that read the clipboard,
    \* the writes of the watcher, cleaned_count when the user set the
    \* clipboard, and what the last step did with pyperclip.copy
    copies, polls, writes, base_count, copy_result,
    \* one run of the pipeline on a candidate, stage by stage: the run (1, or
    \* 2 for the run on the first run's final URL), the stage reached, and the
    \* values the stages produce
    run, pc, candidate, cleaned, removed, final_url, was_converted

watcher == <<clipboard, last_clipboard, cleaned_count, error_count, is_running,
             copies, polls, writes, base_count, copy_result>>

pipeline == <<run, pc, candidate, cleaned, removed, final_url, was_converted>>

vars == <<watcher, pipeline>>

\* SilentURLCleaner.__init__, with nothing in the pipeline
WatcherInit ==
    /\ last_clipboard = <<>>
    /\ cleaned_count = 0
    /\ error_count = 0
    /\ is_running = TRUE
    /\ copies = 1
    /\ polls = 0
    /\ writes = 0
    /\ base_count = 0
    /\ copy_result = "none"

PipelineIdle ==
    /\ run = 1
    /\ pc = "idle"
    /\ cleaned = <<>>
    /\ removed = <<>>
    /\ final_url = <<>>
    /\ was_converted = FALSE

----------------------------------------------------------------------------
(* The watcher                                                             *)

Init ==
    /\ clipboard \in Copied
    /\ WatcherInit
    /\ candidate = <<>>
    /\ PipelineIdle

\* The user (or another program) puts a text on the clipboard.
UserCopy ==
    /\ copies < MaxCopies
    /\ \E text \in Copied : clipboard' = text
    /\ copies' = copies + 1
    /\ polls' = 0
    /\ writes' = 0
    /\ base_count' = cleaned_count
    /\ copy_result' = "none"
    /\ UNCHANGED <<last_clipboard, cleaned_count, error_count, is_running, pipeline>>

\* process_clipboard: pyperclip.copy(final_url), the count and the log
update_clipboard(final, errors, copy_raises) ==
    IF copy_raises
    THEN /\ error_count' = error_count + errors + 1
         /\ copy_result' = "raised"
         /\ UNCHANGED <<clipboard, cleaned_count, writes>>
    ELSE /\ clipboard' = final
         /\ cleaned_count' = cleaned_count + 1
         /\ error_count' = error_count + errors
         /\ writes' = writes + 1
         /\ copy_result' = "written"

\* process_clipboard: the clipboard is updated if any changes were made
\* (c is what clean_url returned, f what convert_twitter_to_fxtwitter did)
finish(current, c, f, copy_raises) ==
    IF should_update(current, c.url, c.removed, f.converted)
    THEN update_clipboard(f.url, (IF c.error THEN 1 ELSE 0) + (IF f.error THEN 1 ELSE 0),
                          copy_raises)
    ELSE /\ error_count' = error_count + (IF c.error THEN 1 ELSE 0)
                           + (IF f.error THEN 1 ELSE 0)
         /\ copy_result' = "none"
         /\ UNCHANGED <<clipboard, cleaned_count, writes>>

\* process_clipboard: the cleaned URL is converted
clean_then_convert(current, c, copy_raises) ==
    finish(current, c, convert_twitter_to_fxtwitter(c.url), copy_raises)

\* process_clipboard(): paste_raises and copy_raises say whether
\* pyperclip.paste and pyperclip.copy raise in this call. A poll that read
\* the clipboard is counted, up to the second.
process_clipboard(paste_raises, copy_raises) ==
    IF paste_raises
    THEN /\ error_count' = error_count + 1
         /\ copy_result' = "none"
         /\ UNCHANGED <<clipboard, last_clipboard, cleaned_count, polls, writes>>
    ELSE /\ polls' = IF polls < 2 THEN polls + 1 ELSE polls
         /\ IF skip_clipboard(clipboard, last_clipboard)
            THEN /\ copy_result' = "none"
                 /\ UNCHANGED <<clipboard, last_clipboard, cleaned_count, error_count, writes>>
            ELSE /\ last_clipboard' = clipboard
                 /\ IF is_url(clipboard) /\ is_supported_platform(clipboard)
                    THEN clean_then_convert(clipboard, clean_url(clipboard), copy_raises)
                    ELSE /\ copy_result' = "none"
                         /\ UNCHANGED <<clipboard, cleaned_count, error_count, writes>>

\* One iteration of monitor_loop: while self.is_running, process_clipboard()
\* and sleep. process_clipboard catches every exception, so the loop's own
\* except branch does not run.
monitor_loop ==
    /\ is_running
    /\ \E paste_raises \in BOOLEAN, copy_raises \in BOOLEAN :
           /\ (paste_raises \/ copy_raises) => error_count < MaxErrors
           /\ ~(paste_raises /\ copy_raises)
           /\ process_clipboard(paste_raises, copy_raises)
    /\ UNCHANGED <<is_running, copies, base_count, pipeline>>

\* cleanup_and_exit(), on SIGINT or SIGTERM: the watcher stops
cleanup_and_exit ==
    /\ is_running
    /\ is_running' = FALSE
    /\ copy_result' = "none"
    /\ UNCHANGED <<clipboard, last_clipboard, cleaned_count, error_count,
                   copies, polls, writes, base_count, pipeline>>

Next == UserCopy \/ monitor_loop \/ cleanup_and_exit

Spec == Init /\ [][Next]_vars

----------------------------------------------------------------------------
(* The pipeline of process_clipboard, stage by stage, run on a candidate   *)
(* and then on the final URL it produced                                   *)

PipeInit ==
    /\ clipboard = <<>>
    /\ WatcherInit
    /\ candidate \in Inputs
    /\ PipelineIdle

\* if self.is_url(current)
Validate ==
    /\ pc = "idle"
    /\ pc' = IF is_url(candidate) THEN "valid" ELSE "rejected"
    /\ UNCHANGED <<watcher, run, candidate, cleaned, removed, final_url,
                   was_converted>>

\* and self.is_supported_platform(current)
Classify ==
    /\ pc = "valid"
    /\ pc' = IF is_supported_platform(candidate) THEN "supported" ELSE "rejected"
    /\ UNCHANGED <<watcher, run, candidate, cleaned, removed, final_url, was_converted>>

Cleaned(c) == cleaned' = c.url /\ removed' = c.removed

Converted(f) == final_url' = f.url /\ was_converted' = f.converted

\* cleaned, removed = self.clean_url(current)
Clean ==
    /\ pc = "supported"
    /\ Cleaned(clean_url(candidate))
    /\ pc' = "cleaned"
    /\ UNCHANGED <<watcher, run, candidate, final_url, was_converted>>

\* final_url, was_converted = self.convert_twitter_to_fxtwitter(cleaned)
Convert ==
    /\ pc = "cleaned"
    /\ Converted(convert_twitter_to_fxtwitter(cleaned))
    /\ pc' = "done"
    /\ UNCHANGED <<watcher, run, candidate, cleaned, removed>>

\* The final URL is the next candidate, as it is when the watcher reads its
\* own write back from the clipboard.
Again ==
    /\ pc = "done"
    /\ run = 1
    /\ run' = 2
    /\ candidate' = final_url
    /\ pc' = "idle"
    /\ cleaned' = <<>>
    /\ removed' = <<>>
    /\ final_url' = <<>>
    /\ was_converted' = FALSE
    /\ UNCHANGED watcher

PipeNext == Validate \/ Classify \/ Clean \/ Convert \/ Again

PipeSpec == PipeInit /\ [][PipeNext]_vars

----------------------------------------------------------------------------
(* The properties                                                          *)

\* the query string of a URL
query_of(url) == urlparse(url).query

\* the names of the parameters of a URL, as clean_url reads them
names_of(url) == Range(keys(parse_qs(query_of(url))))

\* the host of a URL as the documentation normalises it: lower-cased, with
\* a leading "www." stripped
HostOf(url) ==
    IF Take(lower(urlparse(url).netloc), 4) = str("www.")
    THEN Drop(lower(urlparse(url).netloc), 4)
    ELSE lower(urlparse(url).netloc)

\* the video-hosting domains
VideoHosts == {str("youtube.com"), str("youtu.be"), str("m.youtube.com")}

\* the parameter occurrences of a query string, in their order: the decoded
\* name and value of every field, an empty value included
RECURSIVE occurrences_of(_)
occurrences_of(fields) ==
    IF fields = <<>> THEN <<>>
    ELSE (IF Head(fields) = <<>> THEN <<>>
          ELSE << <<unquote_plus(partition(Head(fields), "=")[1]),
                    unquote_plus(partition(Head(fields), "=")[2])>> >>)
         \o occurrences_of(Tail(fields))

Occurrences(qs) == IF qs = <<>> THEN <<>> ELSE occurrences_of(split(qs, "&"))

\* the first run of the pipeline has cleaned its candidate
FirstCleaned == run = 1 /\ pc \in {"cleaned", "done"}

\* the number of times a name occurs in a sequence of names
Count(name, names) == Cardinality({i \in 1..Len(names) : names[i] = name})

\* the text begins, in any letter case, with a dangerous scheme and a colon
BeginsWithDangerousScheme(text) ==
    \E name \in {str("javascript"), str("data"), str("vbscript"), str("file")} :
        /\ Len(text) > Len(name)
        /\ \A i \in 1..Len(name) : lowerChar(text[i]) = name[i]
        /\ text[Len(name) + 1] = ":"

\* the pipeline accepts the text and changes it: a parameter is removed or
\* the domain is rewritten
RealChange(text) ==
    /\ is_url(text)
    /\ is_supported_platform(text)
    /\ \/ clean_url(text).removed # <<>>
       \/ convert_twitter_to_fxtwitter(clean_url(text).url).converted

\* a step of the watcher itself, not of the user
WatcherStep == copies' = copies

\* after http:// or https://, the host (the longest run of alphanumerics,
\* hyphens and dots) begins and ends with an alphanumeric and is followed
\* by at least one more character
ContentAfterHost(text, prefix) ==
    /\ startswith_nocase(text, prefix)
    /\ LET r == Drop(text, Len(prefix))
           beyond == {i \in 1..Len(r) : r[i] \notin AlNum \cup {"-", "."}}
       IN  /\ beyond # {}
           /\ Min(beyond) > 1
           /\ r[1] \in AlNum
           /\ r[Min(beyond) - 1] \in AlNum

(* C1: on a video-hosting domain (youtube.com, youtu.be, m.youtube.com)    *)
(* clean_url keeps the t parameter; on any other domain it removes t and   *)
(* records it.                                                             *)
C1_TimestampKeptOnVideoHosts ==
    (FirstCleaned /\ str("t") \in names_of(candidate)) =>
        IF HostOf(candidate) \in VideoHosts
        THEN str("t") \notin Range(removed) /\ str("t") \in names_of(cleaned)
        ELSE str("t") \in Range(removed) /\ str("t") \notin names_of(cleaned)

(* C2: the pipeline run again on the final URL of an accepted candidate    *)
(* accepts it, removes no parameter and rewrites no domain.                *)
C2_PipelineIdempotent ==
    (run = 2 /\ pc \in {"rejected", "done"}) =>
        (pc = "done" /\ removed = <<>> /\ was_converted = FALSE)

(* C3: a poll calls pyperclip.copy only if the clipboard content passed    *)
(* is_url and is_supported_platform and a parameter was removed or the     *)
(* domain was rewritten; otherwise the poll leaves the clipboard and       *)
(* cleaned_count as they are.                                              *)
C3_WriteOnlyOnRealChange ==
    [][/\ copy_result' # "none" => RealChange(clipboard)
       /\ (WatcherStep /\ ~RealChange(clipboard)) =>
              (clipboard' = clipboard /\ cleaned_count' = cleaned_count)]_vars

C3_Witness == copy_result = "written" /\ writes = 1 /\ cleaned_count >= 1

(* C4: when no query key of an accepted URL is, lower-cased, in the        *)
(* tracking set, clean_url removes nothing and returns a query string with *)
(* the same parameter occurrences, in the same order, with the same        *)
(* values.                                                                 *)
C4_NonTrackingPreserved ==
    (/\ FirstCleaned
     /\ \A i \in 1..Len(Occurrences(query_of(candidate))) :
            lower(Occurrences(query_of(candidate))[i][1]) \notin tracking_params) =>
        /\ removed = <<>>
        /\ Occurrences(query_of(cleaned)) = Occurrences(query_of(candidate))

(* C5: convert_twitter_to_fxtwitter rewrites a cleaned URL if and only if  *)
(* its host (lower-cased, leading www. stripped) is twitter.com, x.com or  *)
(* mobile.twitter.com and its path contains /status/; a rewrite changes    *)
(* the host only, and without a rewrite the URL is returned unchanged.     *)
C5_RewriteGating ==
    (run = 1 /\ pc = "done") =>
        /\ was_converted <=> (/\ HostOf(cleaned) \in twitter_domains
                              /\ contains(urlparse(cleaned).path, str("/status/")))
        /\ was_converted =>
              /\ urlparse(final_url).netloc = str("fxtwitter.com")
              /\ \A part \in {"scheme", "path", "params", "query", "fragment"} :
                     urlparse(final_url)[part] = urlparse(cleaned)[part]
        /\ ~was_converted => final_url = cleaned

(* C6: a text that begins, in any letter case, with javascript:, data:,    *)
(* vbscript: or file: is rejected by is_url, and no poll that finds it on  *)
(* the clipboard calls pyperclip.copy or changes the clipboard or          *)
(* cleaned_count.                                                          *)
C6_DangerousSchemesRejected ==
    [][BeginsWithDangerousScheme(clipboard) =>
          /\ ~is_url(clipboard)
          /\ copy_result' = "none"
          /\ WatcherStep => (clipboard' = clipboard /\ cleaned_count' = cleaned_count)]_vars

C6_Witness ==
    /\ BeginsWithDangerousScheme(clipboard)
    /\ contains(clipboard, str("https://"))
    /\ last_clipboard = clipboard
    /\ polls >= 1

(* C7: is_url accepts a text only if, after http:// or https:// and a      *)
(* complete host, at least one more character follows: a text that is a    *)
(* scheme and a host alone is rejected.                                    *)
C7_BareHostRejected ==
    (run = 1 /\ pc = "valid") =>
        \E prefix \in {str("http://"), str("https://")} : ContentAfterHost(strip(candidate), prefix)

(* C8: whatever the letter case of a query key, if it is a name of the     *)
(* tracking set then clean_url removes it with all its values and records  *)
(* it once, as it was written; every other key is retained with all its    *)
(* values.                                                                 *)
C8_DenylistIgnoresCase ==
    FirstCleaned =>
        \A i \in 1..Len(parse_qs(query_of(candidate))) :
            IF \E name \in tracking_params :
                   lower(name) = lower(parse_qs(query_of(candidate))[i].key)
            THEN /\ Count(parse_qs(query_of(candidate))[i].key, removed) = 1
                 /\ parse_qs(query_of(candidate))[i].key \notin names_of(cleaned)
            ELSE parse_qs(query_of(candidate))[i] \in Range(parse_qs(query_of(cleaned)))

(* C9: when process_clipboard has written the final URL to the clipboard,  *)
(* last_clipboard is that final URL at the end of the poll.                *)
C9_LastSeenIsFinalUrl == copy_result = "written" => last_clipboard = clipboard

(* C10: with no further change of the clipboard by the user, the polls     *)
(* write to the clipboard at most once and cleaned_count grows by at most  *)
(* one, and from the second poll that read the clipboard on, a poll        *)
(* changes neither the clipboard nor last_clipboard nor cleaned_count.     *)
C10_NoFeedbackLoop ==
    [][/\ writes' <= 1
       /\ cleaned_count' <= base_count' + 1
       /\ (WatcherStep /\ polls = 2) =>
              UNCHANGED <<clipboard, last_clipboard, cleaned_count>>]_vars

C10_Witness ==
    /\ writes = 1
    /\ polls = 2
    /\ copy_result = "none"
    /\ last_clipboard = clipboard
    /\ cleaned_count = base_count + 1

====
